---- MODULE Spec2Model ----
(***************************************************************************)
(* Model of the three RerankerOllama node variants:                        *)
(*   "chat"   classification reranker over /api/chat, getModels over       *)
(*            /api/tags with a whitelist                                   *)
(*            (src/nodes/RerankerOllama/RerankerOllama.node.ts:12-230)     *)
(*   "tags"   list-ranking reranker over /api/generate, getModels over     *)
(*            /api/tags                                                    *)
(*            (src/nodes/RerankerOllama/RerankerOllama.node.ts:243-465)    *)
(*   "models" list-ranking reranker over /api/generate, getModels over     *)
(*            /models (src/unnamed/part_000)                               *)
(*                                                                         *)
(* JavaScript values are modelled as follows.  A string is a sequence of   *)
(* characters (one-character TLA+ strings, or whole words where only the   *)
(* case of the word matters).  An optional number is <<>> (undefined /     *)
(* NaN) or <<n>>.  List-ranking scores are written in tenths: 9 stands for *)
(* 0.9.  An event-loop turn (a handler together with the microtasks it     *)
(* triggers) is one action.                                                *)
(***************************************************************************)
EXTENDS Integers, Sequences, FiniteSets, TLC

\* ------------------------------------------------------------------ bounds
MaxDocs == 2
MaxTopN == 3
MaxElems == 2

Variants == {"chat", "tags", "models"}
TopNs == (0 - 1)..MaxTopN

Min(a, b) == IF a < b THEN a ELSE b
Max(a, b) == IF a > b THEN a ELSE b

\* ---------------------------------------------------------------- strings
\* String.prototype.toLowerCase, character by character.
LowerChar(c) ==
  CASE c = "Y" -> "y"
    [] c = "E" -> "e"
    [] c = "S" -> "s"
    [] c = "N" -> "n"
    [] c = "Qwen3" -> "qwen3"
    [] c = "Reranker" -> "reranker"
    [] OTHER -> c

ToLowerCase(s) == [i \in 1..Len(s) |-> LowerChar(s[i])]

IsSpace(c) == c = " "

RECURSIVE TrimStart(_)
TrimStart(s) ==
  IF s # <<>> /\ IsSpace(Head(s)) THEN TrimStart(Tail(s)) ELSE s

RECURSIVE TrimEnd(_)
TrimEnd(s) ==
  IF s # <<>> /\ IsSpace(s[Len(s)]) THEN TrimEnd(SubSeq(s, 1, Len(s) - 1)) ELSE s

\* String.prototype.trim
Trim(s) == TrimEnd(TrimStart(s))

\* String.prototype.includes
Includes(s, sub) ==
  \E i \in 1..(Len(s) - Len(sub) + 1) : SubSeq(s, i, i + Len(sub) - 1) = sub

\* s.replace(/\/+$/, ''): drop the trailing run of slashes.
RECURSIVE StripTrailingSlashes(_)
StripTrailingSlashes(s) ==
  IF s # <<>> /\ s[Len(s)] = "/"
    THEN StripTrailingSlashes(SubSeq(s, 1, Len(s) - 1))
    ELSE s

\* Array.prototype.slice(0, end) for an integer end.
Slice0(s, end) ==
  LET k == IF end < 0 THEN Max(Len(s) + end, 0) ELSE Min(end, Len(s))
  IN SubSeq(s, 1, k)

\* ------------------------------------------------------------ credentials
\* The default base URL, one word.
DefaultBaseUrl == <<"http://localhost:11434">>

\* Strings over {"h", "/"} of length 0..2: the credential's baseUrl field.
BaseUrls ==
  {<<>>} \cup {<<a>> : a \in {"h", "/"}} \cup {<<a, b>> : a \in {"h", "/"}, b \in {"h", "/"}}

\* a || b for strings: the empty string is falsy.
OrElse(a, b) == IF a # <<>> THEN a ELSE b

\* getModels of the "chat" and "tags" variants.
GetModelsBaseUrlTags(cred) == OrElse(StripTrailingSlashes(OrElse(cred, <<>>)), DefaultBaseUrl)

\* getModels of the "models" variant.
GetModelsBaseUrlModels(cred) == StripTrailingSlashes(OrElse(cred, <<>>))

GetModelsBaseUrl(v, cred) ==
  IF v = "models" THEN GetModelsBaseUrlModels(cred) ELSE GetModelsBaseUrlTags(cred)

\* rerankQwen and rerank, all three variants.
RerankBaseUrl(cred) == StripTrailingSlashes(OrElse(cred, DefaultBaseUrl))

\* ----------------------------------------------------------------- errors
NoError == [type |-> "none", message |-> ""]
OperationError(msg) == [type |-> "NodeOperationError", message |-> msg]
TypeError == [type |-> "TypeError", message |-> ""]
NetworkError == [type |-> "NetworkError", message |-> ""]
CredentialError == [type |-> "CredentialError", message |-> ""]

\* -------------------------------------------------------------- documents
\* A document's metadata: whether the container exists, and its
\* relevanceScore key (hasScore: the key exists; relevanceScore: its value,
\* <<>> for undefined).
NoMetadata == [container |-> FALSE, hasScore |-> FALSE, relevanceScore |-> <<>>]
EmptyMetadata == [container |-> TRUE, hasScore |-> FALSE, relevanceScore |-> <<>>]

\* The documents handed in: every other one arrives without a metadata
\* container.
InitialMetadata(n) == [i \in 1..n |-> IF i % 2 = 1 THEN NoMetadata ELSE EmptyMetadata]

\* documents[index] is a document (index is <<>> for NaN).
ValidIndex(index, n) == index # <<>> /\ index[1] >= 0 /\ index[1] < n

\* results.map(...) of compressDocuments: attach each result's score to the
\* document it names, in order; reading .metadata of a missing document
\* throws a TypeError, leaving the earlier documents already changed.
RECURSIVE Attach(_, _, _)
Attach(results, meta, out) ==
  IF results = <<>>
    THEN [threw |-> FALSE, metadata |-> meta, out |-> out]
    ELSE LET r == Head(results)
         IN IF ~ValidIndex(r.index, Len(meta))
              THEN [threw |-> TRUE, metadata |-> meta, out |-> <<>>]
              ELSE Attach(Tail(results),
                          [meta EXCEPT ![r.index[1] + 1] =
                             [container |-> TRUE, hasScore |-> TRUE,
                              relevanceScore |-> r.relevanceScore]],
                          Append(out, r.index[1]))

\* A guard that tests for a missing list only.
IsMissingInput(given, meta) == ~given

\* !documents?.length
IsEmptyInput(given, meta) == ~given \/ Len(meta) = 0

\* ------------------------------------------------- classification reranker
\* Reply contents of /api/chat.
ReplyTexts ==
  { <<>>,
    <<"Y", "e", "s", ",", " ", "r", ".">>,
    <<"N", "o", ".">>,
    <<" ", "Y", "E", "S", " ">>,
    <<"e", "y", "e", "s">>,
    <<"y", "e", " ", "s">>,
    <<"y", "e">> }

\* The bodies httpRequest can resolve to: undefined, an object without
\* message, a message without content, a content that is not a string, a
\* content string.
ChatBody(kind, content) == [kind |-> kind, content |-> content]
ChatBodies ==
  {ChatBody(k, <<>>) : k \in {"undefined", "noMessage", "noContent", "nonString"}}
    \cup {ChatBody("text", t) : t \in ReplyTexts}

\* response?.message?.content?.trim()?.toLowerCase() throws when content has
\* no trim method.
ChatThrows(body) == body.kind = "nonString"

\* A grader that forgets toLowerCase().
RelevanceScoreCaseSensitive(body) ==
  IF body.kind = "text" /\ Includes(Trim(body.content), <<"y", "e", "s">>)
    THEN 1
    ELSE 0

\* answer?.includes('yes') ? 1 : 0
RelevanceScoreOf(body) ==
  IF body.kind = "text" /\ Includes(ToLowerCase(Trim(body.content)), <<"y", "e", "s">>)
    THEN 1
    ELSE 0

\* (a, b) => b.relevanceScore - a.relevanceScore
CompareDesc(a, b) == b.relevanceScore[1] - a.relevanceScore[1]

\* Array.prototype.sort is stable: r goes before the first element that the
\* comparator orders after it.
RECURSIVE InsertSorted(_, _)
InsertSorted(sorted, r) ==
  IF sorted = <<>> THEN <<r>>
  ELSE IF CompareDesc(Head(sorted), r) > 0 THEN <<r>> \o sorted
  ELSE <<Head(sorted)>> \o InsertSorted(Tail(sorted), r)

RECURSIVE SortResults(_)
SortResults(rs) ==
  IF rs = <<>> THEN <<>>
  ELSE InsertSorted(SortResults(SubSeq(rs, 1, Len(rs) - 1)), rs[Len(rs)])

\* Promise.all(rerankCall): the results, by input position.
GatherResults(cs) ==
  [i \in 1..Len(cs) |-> [index |-> <<i - 1>>,
                         relevanceScore |-> <<RelevanceScoreOf(cs[i].body)>>]]

\* A clamp that is off by one: Math.min(topN, length - 1).
TopSliceShort(rs, n) == Slice0(rs, Min(n, Len(rs) - 1))

\* sorted.slice(0, Math.min(topN, sorted.length))
TopSlice(rs, n) == Slice0(rs, Min(n, Len(rs)))

\* A join that never rejects (Promise.allSettled).
JoinNeverRejected(cs) == FALSE

\* Promise.all settles: rejected as soon as one call is rejected, fulfilled
\* once every call is fulfilled.
JoinRejected(cs) == \E i \in 1..Len(cs) : cs[i].state = "failed"
JoinFulfilled(cs) == \A i \in 1..Len(cs) : cs[i].state = "ok"

\* --------------------------------------------------- list-ranking reranker
\* A reply text of /api/generate is a sequence of tokens: "x" (a stretch of
\* prose without brackets), "[", "]", ",", and "obj", one JSON object with an
\* optional index and an optional score.  "arr" is a parsed nested array.
Tok(t) == [t |-> t, index |-> <<>>, score |-> <<>>]
Obj(index, score) == [t |-> "obj", index |-> index, score |-> score]
LB == Tok("[")
RB == Tok("]")
Comma == Tok(",")
Prose == Tok("x")

ScoreValues == {9, 4}

\* The objects a reply can hold: any index from 0 to one past the largest
\* label, with a score; an object without score; an object without either.
Elems ==
  {Obj(<<i>>, <<sc>>) : i \in 0..(MaxDocs + 1), sc \in ScoreValues}
    \cup {Obj(<<1>>, <<>>), Obj(<<>>, <<>>)}

Arrays == UNION {[1..n -> Elems] : n \in 0..MaxElems}

\* The text of a JSON array of objects.
RECURSIVE Render(_)
Render(arr) ==
  IF arr = <<>> THEN <<>>
  ELSE IF Len(arr) = 1 THEN <<arr[1]>>
  ELSE <<arr[1], Comma>> \o Render(Tail(arr))

ArrayText(arr) == <<LB>> \o Render(arr) \o <<RB>>

\* Bracketed texts that are not the array asked for.
OddTexts ==
  { <<>>,
    <<LB>>,
    <<RB>>,
    <<RB, LB>>,
    <<LB, Prose, RB>>,
    <<LB, Obj(<<1>>, <<9>>), Obj(<<2>>, <<4>>), RB>>,
    <<LB, Obj(<<1>>, <<9>>), Comma, RB>>,
    <<LB, Obj(<<1>>, <<9>>), RB, Prose, LB, Obj(<<2>>, <<4>>), RB>>,
    <<LB, LB, Obj(<<1>>, <<9>>), RB, RB>> }

Surrounds == {<<>>, <<Prose>>}

ReplyTextsList ==
  {pre \o mid \o post :
     pre \in Surrounds, post \in Surrounds,
     mid \in OddTexts \cup {ArrayText(a) : a \in Arrays}}

\* The bodies httpRequest can resolve to: undefined, an object with
\* `response`, an object with `output`, a bare string, an object with neither.
ListBody(kind, text) == [kind |-> kind, text |-> text]
ListBodies ==
  {ListBody("undefined", <<>>), ListBody("neither", <<>>)}
    \cup {ListBody(k, t) : k \in {"response", "output", "string"}, t \in ReplyTextsList}

\* response.response || response.output || response: a string, or the
\* response object itself when the field is missing or empty.
ExtractText(body) ==
  IF body.kind = "string" THEN [isString |-> TRUE, text |-> body.text]
  ELSE IF body.kind \in {"response", "output"} /\ body.text # <<>>
    THEN [isString |-> TRUE, text |-> body.text]
  ELSE [isString |-> FALSE, text |-> <<>>]

\* text.match(/\[[\s\S]*\]/): from the first "[" to the last "]".
Positions(text, tok) == {i \in 1..Len(text) : text[i] = tok}
SetMin(S) == CHOOSE x \in S : \A y \in S : x <= y
SetMax(S) == CHOOSE x \in S : \A y \in S : x >= y

RegexMatch(text) ==
  LET opens == Positions(text, LB)
      closes == Positions(text, RB)
  IN IF opens # {} /\ closes # {} /\ SetMin(opens) < SetMax(closes)
       THEN [found |-> TRUE, text |-> SubSeq(text, SetMin(opens), SetMax(closes))]
       ELSE [found |-> FALSE, text |-> <<>>]

\* JSON.parse of a text that starts with "[": array := "[" "]" |
\* "[" value ("," value)* "]", value := object | array.
ParseFail == [ok |-> FALSE, next |-> 0, elems |-> <<>>]

RECURSIVE ParseArray(_, _)
RECURSIVE ParseElems(_, _, _)
ParseArray(toks, p) ==
  IF p + 1 > Len(toks) \/ toks[p] # LB THEN ParseFail
  ELSE IF toks[p + 1] = RB THEN [ok |-> TRUE, next |-> p + 2, elems |-> <<>>]
  ELSE ParseElems(toks, p + 1, <<>>)

ParseElems(toks, p, acc) ==
  IF p > Len(toks) THEN ParseFail
  ELSE LET inner == IF toks[p] = LB THEN ParseArray(toks, p) ELSE ParseFail
           isObj == toks[p].t = "obj"
           isArr == toks[p] = LB /\ inner.ok
           q == IF isObj THEN p + 1 ELSE inner.next
           v == IF isObj THEN toks[p] ELSE Tok("arr")
       IN IF ~(isObj \/ isArr) \/ q > Len(toks) THEN ParseFail
          ELSE IF toks[q] = Comma THEN ParseElems(toks, q + 1, Append(acc, v))
          ELSE IF toks[q] = RB
            THEN [ok |-> TRUE, next |-> q + 1, elems |-> Append(acc, v)]
          ELSE ParseFail

JsonParse(toks) ==
  LET r == ParseArray(toks, 1)
  IN IF r.ok /\ r.next = Len(toks) + 1 THEN r ELSE ParseFail

\* r.index - 1 (NaN when index is missing)
MinusOne(index) == IF index = <<>> THEN <<>> ELSE <<index[1] - 1>>

\* rankings.map((r) => ({ index: r.index - 1, relevanceScore: r.score }))
ToResults(rankings) ==
  [k \in 1..Len(rankings) |->
     [index |-> MinusOne(rankings[k].index), relevanceScore |-> rankings[k].score]]

FailedToParse == OperationError("Failed to parse reranker output.")
InvalidJson == OperationError("Invalid JSON in reranker response.")

\* rerank, from the reply on: the error thrown (NoError when it returns) and
\* the results returned.
Rerank(body, n) ==
  LET t == ExtractText(body)
      m == RegexMatch(t.text)
      parsed == JsonParse(m.text)
  IN IF body.kind = "undefined" \/ ~t.isString
       THEN [error |-> TypeError, results |-> <<>>]
     ELSE IF ~m.found THEN [error |-> FailedToParse, results |-> <<>>]
     ELSE IF ~parsed.ok THEN [error |-> InvalidJson, results |-> <<>>]
     ELSE [error |-> NoError, results |-> ToResults(TopSlice(parsed.elems, n))]

\* ------------------------------------------------------------ model lister
\* Model names, word by word.
QwenName == <<"Qwen3", "-", "Reranker", ":4b">>
LlamaName == <<"llama3">>

\* The whitelist of the "chat" variant: 'qwen3-reranker'.
Whitelist == {<<"qwen3", "-", "reranker">>}

\* The array field of the listing (`models` or `data`): missing, null, an
\* empty string, a non-empty string, an object, or an array of entries.
ModelsField(kind, items) == [kind |-> kind, items |-> items]
ModelsFields ==
  {ModelsField(k, <<>>) : k \in {"missing", "null", "emptyString", "string", "object"}}
    \cup {ModelsField("array", a) :
            a \in {<<>>, <<QwenName>>, <<LlamaName>>, <<LlamaName, QwenName>>}}

\* options.filter(...) of the "chat" variant
Supported(name) == \E allowed \in Whitelist : Includes(ToLowerCase(name), allowed)

MissingModels == OperationError("Unexpected response: missing \"models\" array from Ollama API.")
NetworkErrorOllama == OperationError("Network error connecting to Ollama")
FailedToFetch == OperationError("Failed to fetch models")

\* getModels over /api/tags, from the parsed body on.
GetModelsTags(v, field) ==
  IF field.kind # "array"
    THEN [error |-> MissingModels, options |-> <<>>]
    ELSE [error |-> NoError,
          options |-> IF v = "chat"
                        THEN SelectSeq(field.items, Supported)
                        ELSE field.items]

\* getModels over /models, from the parsed body on: (result.data ?? []).map
GetModelsData(field) ==
  IF field.kind \in {"missing", "null"} THEN [error |-> NoError, options |-> <<>>]
  ELSE IF field.kind = "array" THEN [error |-> NoError, options |-> field.items]
  ELSE [error |-> TypeError, options |-> <<>>]

GetModelsResult(v, field) ==
  IF v = "models" THEN GetModelsData(field) ELSE GetModelsTags(v, field)

\* fetch rejects: caught and wrapped over /api/tags, not caught over /models.
FetchRejected(v) == IF v = "models" THEN NetworkError ELSE NetworkErrorOllama

\* ------------------------------------------------------------------ state
VARIABLES
  variant,      \* which of the three node variants
  op,           \* the operation invoked: "getModels" or "compressDocuments"
  pc,           \* where the invocation stands
  credBaseUrl,  \* the credential's baseUrl
  docsGiven,    \* FALSE: compressDocuments was handed no document list
  metadata,     \* the documents' metadata, by position
  topN,         \* the node parameter
  baseUrl,      \* <<>>, or <<u>> once the base URL u is derived
  calls,        \* classification: the per-document calls
  listBody,     \* list-ranking: <<>>, or <<b>> once the reply b arrived
  modelsField,  \* getModels: <<>>, or <<f>> once the listing arrived
  results,      \* <<>>, or <<rs>> once the reranker returned rs
  returned,     \* what the operation returned
  outcome,      \* "pending", "returned" or "threw"
  error,        \* what it threw
  httpRequests, \* HTTP requests issued
  credLookups,  \* credential lookups made
  arrivals      \* classification: the documents' calls, in the order they settled

vars ==
  <<variant, op, pc, credBaseUrl, docsGiven, metadata, topN, baseUrl, calls,
    listBody, modelsField, results, returned, outcome, error, httpRequests,
    credLookups, arrivals>>

inputs == <<variant, op, credBaseUrl, docsGiven, topN>>

\* The credential the documents are varied under.
UsualCredential == <<"h", "/">>

Init ==
  /\ variant \in Variants
  /\ op \in {"getModels", "compressDocuments"}
  /\ credBaseUrl \in BaseUrls
  /\ docsGiven \in BOOLEAN
  /\ topN \in TopNs
  /\ \E n \in 0..MaxDocs :
       /\ metadata = InitialMetadata(n)
       /\ ~docsGiven => n = 0
       /\ op = "getModels" => ~docsGiven /\ topN = MaxTopN
       /\ op = "compressDocuments" =>
            credBaseUrl = UsualCredential \/ (n = 1 /\ topN = MaxTopN)
  /\ pc = "idle"
  /\ baseUrl = <<>>
  /\ calls = <<>>
  /\ listBody = <<>>
  /\ modelsField = <<>>
  /\ results = <<>>
  /\ returned = <<>>
  /\ outcome = "pending"
  /\ error = NoError
  /\ httpRequests = 0
  /\ credLookups = 0
  /\ arrivals = <<>>

Throw(e) ==
  /\ outcome' = "threw"
  /\ error' = e
  /\ returned' = <<>>
  /\ pc' = "done"

Return(value) ==
  /\ outcome' = "returned"
  /\ error' = NoError
  /\ returned' = value
  /\ pc' = "done"

\* ---------------------------------------------------------------- getModels
\* getModels is invoked: await this.getCredentials('ollamaApi').
GetModels ==
  /\ op = "getModels" /\ pc = "idle"
  /\ credLookups' = credLookups + 1
  /\ pc' = "credentials"
  /\ UNCHANGED <<inputs, arrivals, metadata, baseUrl, calls, listBody, modelsField, results,
                 returned, outcome, error, httpRequests>>

\* The credential lookup rejects (either operation).
CredentialsFail ==
  /\ pc = "credentials"
  /\ Throw(CredentialError)
  /\ UNCHANGED <<inputs, arrivals, metadata, baseUrl, calls, listBody, modelsField, results,
                 httpRequests, credLookups>>

\* The credentials arrive: derive the base URL and fetch the listing.
GetModelsFetch ==
  /\ op = "getModels" /\ pc = "credentials"
  /\ baseUrl' = <<GetModelsBaseUrl(variant, credBaseUrl)>>
  /\ httpRequests' = httpRequests + 1
  /\ pc' = "awaitFetch"
  /\ UNCHANGED <<inputs, arrivals, metadata, calls, listBody, modelsField, results, returned,
                 outcome, error, credLookups>>

\* fetch rejects.
FetchFail ==
  /\ pc = "awaitFetch"
  /\ Throw(FetchRejected(variant))
  /\ UNCHANGED <<inputs, arrivals, metadata, baseUrl, calls, listBody, modelsField, results,
                 httpRequests, credLookups>>

\* The server answers with a non-success status.
FetchNotOk ==
  /\ pc = "awaitFetch"
  /\ Throw(FailedToFetch)
  /\ UNCHANGED <<inputs, arrivals, metadata, baseUrl, calls, listBody, modelsField, results,
                 httpRequests, credLookups>>

\* The server answers with success and a JSON object.
FetchOk ==
  /\ pc = "awaitFetch"
  /\ \E field \in ModelsFields :
       LET r == GetModelsResult(variant, field)
       IN /\ modelsField' = <<field>>
          /\ IF r.error # NoError THEN Throw(r.error) ELSE Return(r.options)
  /\ UNCHANGED <<inputs, arrivals, metadata, baseUrl, calls, listBody, results, httpRequests,
                 credLookups>>

\* -------------------------------------------------------- compressDocuments
\* compressDocuments is invoked: an empty or absent list returns [] at once;
\* otherwise the reranker starts with await this.getCredentials(...).
CompressDocuments ==
  /\ op = "compressDocuments" /\ pc = "idle"
  /\ IF IsEmptyInput(docsGiven, metadata)
       THEN /\ Return(<<>>)
            /\ UNCHANGED credLookups
       ELSE /\ credLookups' = credLookups + 1
            /\ pc' = "credentials"
            /\ UNCHANGED <<returned, outcome, error>>
  /\ UNCHANGED <<inputs, arrivals, metadata, baseUrl, calls, listBody, modelsField, results,
                 httpRequests>>

\* documents.map(async ...): each callback runs up to its await, so every
\* request is issued before the turn ends.
StartedCalls(n) == [i \in 1..n |-> [state |-> "inflight", body |-> ChatBody("undefined", <<>>)]]

\* The credentials arrive: derive the base URL and issue the request(s).
RerankCredentials ==
  /\ op = "compressDocuments" /\ pc = "credentials"
  /\ baseUrl' = <<RerankBaseUrl(credBaseUrl)>>
  /\ IF variant = "chat"
       THEN /\ calls' = StartedCalls(Len(metadata))
            /\ httpRequests' = httpRequests + Len(metadata)
            /\ pc' = "awaitAll"
       ELSE /\ httpRequests' = httpRequests + 1
            /\ pc' = "awaitHttp"
            /\ UNCHANGED calls
  /\ UNCHANGED <<inputs, arrivals, metadata, listBody, modelsField, results, returned, outcome,
                 error, credLookups>>

\* The rest of compressDocuments once the reranker returned rs.
AttachAndReturn(rs) ==
  LET a == Attach(rs, metadata, <<>>)
  IN /\ results' = <<rs>>
     /\ metadata' = a.metadata
     /\ IF a.threw THEN Throw(TypeError) ELSE Return(a.out)

\* A join that collects the results as the calls settle: those that settled
\* before this turn in their order, then the one settling now.
GatherByArrival(cs) ==
  LET late == {i \in 1..Len(cs) : \A k \in 1..Len(arrivals) : arrivals[k] # i}
      order == arrivals \o <<CHOOSE i \in late : TRUE>>
  IN [k \in 1..Len(cs) |-> [index |-> <<order[k] - 1>>,
                            relevanceScore |-> <<RelevanceScoreOf(cs[order[k]].body)>>]]

\* A rerankQwen over the results in the order the calls settled.
RerankQwenByArrival(cs, n) == TopSlice(SortResults(GatherByArrival(cs)), n)

\* rerankQwen after Promise.all: sort, slice.
RerankQwen(cs, n) == TopSlice(SortResults(GatherResults(cs)), n)

\* What the turn that settles a call does to the invocation: nothing once it
\* is over or while calls are outstanding; the rejection propagates; the last
\* fulfilment lets rerankQwen and compressDocuments run to their end.
Settle(cs, e) ==
  IF pc = "awaitAll" /\ JoinRejected(cs)
    THEN /\ Throw(e)
         /\ UNCHANGED <<metadata, results>>
  ELSE IF pc = "awaitAll" /\ JoinFulfilled(cs)
    THEN AttachAndReturn(RerankQwen(cs, topN))
  ELSE UNCHANGED <<metadata, results, returned, outcome, error, pc>>

\* Classification: the reply to document i arrives.
ChatReply(i) ==
  /\ variant = "chat" /\ pc \in {"awaitAll", "done"}
  /\ i \in 1..Len(calls) /\ calls[i].state = "inflight"
  /\ \E body \in ChatBodies :
       LET cs == [calls EXCEPT ![i] =
                    [state |-> IF ChatThrows(body) THEN "failed" ELSE "ok",
                     body |-> body]]
       IN /\ calls' = cs
          /\ arrivals' = Append(arrivals, i)
          /\ Settle(cs, TypeError)
  /\ UNCHANGED <<inputs, baseUrl, listBody, modelsField, httpRequests, credLookups>>

\* Classification: the request for document i fails.
ChatFail(i) ==
  /\ variant = "chat" /\ pc \in {"awaitAll", "done"}
  /\ i \in 1..Len(calls) /\ calls[i].state = "inflight"
  /\ LET cs == [calls EXCEPT ![i].state = "failed"]
     IN /\ calls' = cs
        /\ arrivals' = Append(arrivals, i)
        /\ Settle(cs, NetworkError)
  /\ UNCHANGED <<inputs, baseUrl, listBody, modelsField, httpRequests, credLookups>>

\* List-ranking: the reply arrives.
ListReply ==
  /\ pc = "awaitHttp"
  /\ \E body \in ListBodies :
       LET r == Rerank(body, topN)
       IN /\ listBody' = <<body>>
          /\ IF r.error # NoError
               THEN /\ Throw(r.error)
                    /\ UNCHANGED <<metadata, results>>
               ELSE AttachAndReturn(r.results)
  /\ UNCHANGED <<inputs, arrivals, baseUrl, calls, modelsField, httpRequests, credLookups>>

\* List-ranking: the request fails.
ListFail ==
  /\ pc = "awaitHttp"
  /\ Throw(NetworkError)
  /\ UNCHANGED <<inputs, arrivals, metadata, baseUrl, calls, listBody, modelsField, results,
                 httpRequests, credLookups>>

\* -------------------------------------------------------------------- spec
Next ==
  \/ GetModels
  \/ CredentialsFail
  \/ GetModelsFetch
  \/ FetchFail
  \/ FetchNotOk
  \/ FetchOk
  \/ CompressDocuments
  \/ RerankCredentials
  \/ \E i \in 1..MaxDocs : ChatReply(i)
  \/ \E i \in 1..MaxDocs : ChatFail(i)
  \/ ListReply
  \/ ListFail

Spec == Init /\ [][Next]_vars

\* ----------------------------------------------------------------- claims
NumDocs == Len(metadata)
Compressing == op = "compressDocuments"
ListRanking == variant \in {"tags", "models"}

\* The documents compressDocuments returned all carry a relevanceScore key.
ReturnedDocsScored ==
  \A k \in 1..Len(returned) : metadata[returned[k] + 1].hasScore

\* C1: for a non-empty document list, whenever compressDocuments returns
\* normally it returns at most topN documents and every returned document
\* carries a relevanceScore in its metadata, for every topN and every reply,
\* in all three variants.  (Returning no document is within any cap, so a
\* negative topN is read as a cap of none.)
C1_AtMostTopNScored ==
  (Compressing /\ NumDocs > 0 /\ outcome = "returned")
    => (Len(returned) <= Max(topN, 0) /\ ReturnedDocsScored)

\* C2: called with an empty or absent document list, compressDocuments
\* returns the empty list, and at no point of the invocation is a credential
\* looked up or an HTTP request issued, in every variant.
C2_EmptyInputShortCircuits ==
  (Compressing /\ (~docsGiven \/ NumDocs = 0))
    => /\ credLookups = 0
       /\ httpRequests = 0
       /\ pc \in {"idle", "done"}
       /\ pc = "done" => (outcome = "returned" /\ returned = <<>>)

C2_Witness ==
  Compressing /\ docsGiven /\ NumDocs = 0 /\ pc = "done" /\ outcome = "returned"

\* The reply text holds "yes" in any mix of upper and lower case.
SaysYes(body) ==
  /\ body.kind = "text"
  /\ \E i \in 1..(Len(body.content) - 2) :
       /\ body.content[i] \in {"y", "Y"}
       /\ body.content[i + 1] \in {"e", "E"}
       /\ body.content[i + 2] \in {"s", "S"}

ExpectedScore(body) == IF SaysYes(body) THEN 1 ELSE 0

ResultIndexes(rs) == {rs[k].index[1] : k \in 1..Len(rs)}

\* C3: classification variant: a document's score is 1 exactly when its
\* reply text contains "yes" (after trimming and lowercasing) and 0
\* otherwise, also when the reply has no message content; in the list the
\* reranker returns every score-1 document precedes every score-0 document,
\* and a score-1 document is left out only when the list holds score-1
\* documents alone.
C3_YesScoresOneAndSorted ==
  (variant = "chat" /\ results # <<>>)
    => LET rs == results[1]
       IN /\ \A k \in 1..Len(rs) :
               rs[k].relevanceScore = <<ExpectedScore(calls[rs[k].index[1] + 1].body)>>
          /\ \A j \in 1..Len(rs) : \A k \in 1..Len(rs) :
               (rs[j].relevanceScore = <<1>> /\ rs[k].relevanceScore = <<0>>) => j < k
          /\ \A i \in 1..NumDocs :
               (SaysYes(calls[i].body) /\ (i - 1) \notin ResultIndexes(rs))
                 => \A k \in 1..Len(rs) : rs[k].relevanceScore = <<1>>

\* A later document graded "yes" in upper case is returned ahead of an earlier
\* one without message content.
C3_Witness ==
  /\ variant = "chat" /\ outcome = "returned" /\ results # <<>>
  /\ Len(results[1]) = 2
  /\ results[1][1] = [index |-> <<1>>, relevanceScore |-> <<1>>]
  /\ results[1][2] = [index |-> <<0>>, relevanceScore |-> <<0>>]
  /\ calls[2].body = ChatBody("text", <<" ", "Y", "E", "S", " ">>)
  /\ calls[1].body = ChatBody("noContent", <<>>)
  /\ returned = <<1, 0>>

\* The reply text a body carries (none for the shapes without a text).
BodyText(body) == body.text

\* The text holds a "[" with a "]" somewhere after it.
HasBracketed(text) ==
  \E a \in 1..Len(text) : \E b \in 1..Len(text) : a < b /\ text[a] = LB /\ text[b] = RB

\* The text is a JSON array of objects inside prose without brackets.
IsArrayInProse(text, arr) ==
  \E pre \in Surrounds : \E post \in Surrounds : text = pre \o ArrayText(arr) \o post

\* The objects a text holds, in order.
IsObject(tok) == tok.t = "obj"
ObjectsOf(text) == SelectSeq(text, IsObject)

\* C4: list-ranking variant: once the HTTP call has returned, a reply without
\* a bracketed array substring makes compressDocuments fail with the
\* ParseError 'Failed to parse reranker output.', for every shape of the
\* response body (object with `response`, object with `output`, bare string,
\* object with neither), and a reply whose bracketed substring is not valid
\* JSON makes it fail with the ParseError 'Invalid JSON in reranker
\* response.'; it neither crashes with an untyped error nor returns.
C4_NoArrayIsParseError ==
  (ListRanking /\ listBody # <<>> /\ listBody[1].kind # "undefined")
    => LET text == BodyText(listBody[1])
       IN /\ ~HasBracketed(text) => (outcome = "threw" /\ error = FailedToParse)
          /\ (HasBracketed(text) /\ ~JsonParse(RegexMatch(text).text).ok)
               => (outcome = "threw" /\ error = InvalidJson)

\* C5: model lister: when the listing answers with success but the expected
\* array field is empty, missing or not an array, getModels fails with a
\* NodeOperationError, in every variant.
C5_BadListingIsSchemaError ==
  (op = "getModels" /\ modelsField # <<>>
     /\ (modelsField[1].kind # "array" \/ modelsField[1].items = <<>>))
    => (outcome = "threw" /\ error.type = "NodeOperationError")

\* C6: every result a reranker hands to compressDocuments has an index that
\* is a position of the original document list: 0 <= index < number of
\* documents, in all three variants.
C6_ResultIndexValid ==
  (Compressing /\ results # <<>>)
    => \A k \in 1..Len(results[1]) :
         /\ results[1][k].index # <<>>
         /\ results[1][k].index[1] >= 0
         /\ results[1][k].index[1] < NumDocs

\* The objects of an array all have an index and a score.
AllIndexScore(arr) == \A k \in 1..Len(arr) : arr[k].index # <<>> /\ arr[k].score # <<>>

\* The first n elements of an array (none when n is negative).
FirstN(arr, n) == SubSeq(arr, 1, Max(Min(n, Len(arr)), 0))

\* C7: list-ranking variant: for a reply whose text holds a JSON array of
\* {index, score} objects inside prose without brackets, the k-th result is
\* the k-th element of the array with its index lowered by one and its score
\* as relevanceScore, in the reply's order, cut to the first topN elements.
C7_ResultsFollowReply ==
  (ListRanking /\ listBody # <<>> /\ listBody[1].kind # "undefined")
    => LET arr == ObjectsOf(BodyText(listBody[1]))
       IN (AllIndexScore(arr) /\ IsArrayInProse(BodyText(listBody[1]), arr))
           => /\ results # <<>>
              /\ Len(results[1]) = Len(FirstN(arr, topN))
              /\ \A k \in 1..Len(results[1]) :
                   results[1][k] = [index |-> <<arr[k].index[1] - 1>>,
                                    relevanceScore |-> arr[k].score]

\* C8: classification variant: a request is started for every document
\* before any reply is handled, the results are collected only once every
\* call has completed, and if any call fails compressDocuments fails and
\* returns no partial list, whatever the order in which the other calls
\* complete or fail.
C8_AllStartedJointFailure ==
  (variant = "chat" /\ Compressing)
    => /\ (\E i \in 1..Len(calls) : calls[i].state # "idle")
            => /\ Len(calls) = NumDocs
               /\ httpRequests = NumDocs
               /\ \A i \in 1..Len(calls) : calls[i].state # "idle"
       /\ (results # <<>> \/ (outcome = "returned" /\ NumDocs > 0))
            => /\ Len(calls) = NumDocs
               /\ \A i \in 1..Len(calls) : calls[i].state = "ok"
       /\ (\E i \in 1..Len(calls) : calls[i].state = "failed")
            => (outcome = "threw" /\ returned = <<>> /\ results = <<>>)

\* One call has failed, a sibling has completed, and the invocation failed.
C8_Witness ==
  /\ variant = "chat" /\ Compressing /\ Len(calls) >= 2
  /\ calls[2].state = "failed" /\ calls[2].body = ChatBody("undefined", <<>>)
  /\ calls[1].state = "ok" /\ SaysYes(calls[1].body)
  /\ outcome = "threw" /\ error = NetworkError

\* s without its trailing slashes: the longest prefix not ending in "/".
WithoutTrailingSlashes(s) ==
  SubSeq(s, 1, SetMax({k \in 0..Len(s) : k = 0 \/ s[k] # "/"}))

\* C9: wherever a base URL is derived from the credential (each getModels,
\* each reranker), an empty baseUrl gives http://localhost:11434, a non-empty
\* one gives that value without its trailing slashes, and the result is never
\* the empty string.  (For a baseUrl of slashes alone the last two demands
\* exclude each other; there only the last one is asked for.)
C9_BaseUrlDerivation ==
  baseUrl # <<>>
    => /\ baseUrl[1] # <<>>
       /\ credBaseUrl = <<>> => baseUrl[1] = DefaultBaseUrl
       /\ (credBaseUrl # <<>> /\ WithoutTrailingSlashes(credBaseUrl) # <<>>)
            => baseUrl[1] = WithoutTrailingSlashes(credBaseUrl)

\* C10: when topN is greater than the number of results the reranker has
\* (documents in the classification variant, parsed array elements in the
\* list-ranking variant), the reranker returns all of them and raises no
\* error: the classification variant returns every document once all calls
\* are fulfilled, the list-ranking variant every element of the reply's array.
C10_TopNBeyondCountReturnsAll ==
  /\ (variant = "chat" /\ Compressing /\ topN > NumDocs /\ NumDocs > 0
        /\ Len(calls) = NumDocs /\ \A i \in 1..NumDocs : calls[i].state = "ok")
       => /\ results # <<>>
          /\ Len(results[1]) = NumDocs
          /\ outcome = "returned"
          /\ Len(returned) = NumDocs
  /\ (ListRanking /\ listBody # <<>> /\ listBody[1].kind # "undefined")
       => LET arr == ObjectsOf(BodyText(listBody[1]))
          IN (IsArrayInProse(BodyText(listBody[1]), arr) /\ topN > Len(arr))
              => /\ results # <<>>
                 /\ Len(results[1]) = Len(arr)
                 /\ error \notin {FailedToParse, InvalidJson}

\* A list-ranking reply of two elements under topN = 3: both are returned.
C10_Witness ==
  /\ ListRanking /\ topN = 3 /\ NumDocs = 2
  /\ listBody # <<>> /\ listBody[1].kind = "response"
  /\ listBody[1].text =
       <<Prose>> \o ArrayText(<<Obj(<<2>>, <<9>>), Obj(<<1>>, <<4>>)>>) \o <<Prose>>
  /\ outcome = "returned"
  /\ returned = <<1, 0>>
  /\ metadata[2].relevanceScore = <<9>> /\ metadata[1].relevanceScore = <<4>>

\* The documents' positions, those graded "yes" first, each group in input
\* order.
YesFirst(cs) ==
  LET positions == [i \in 1..Len(cs) |-> i - 1]
      IsYes(pos) == SaysYes(cs[pos + 1].body)
      IsNo(pos) == ~SaysYes(cs[pos + 1].body)
  IN SelectSeq(positions, IsYes) \o SelectSeq(positions, IsNo)

\* How many of n results are kept under topN = t.
KeptCount(n, t) == IF t < 0 THEN Max(n + t, 0) ELSE Min(t, n)

\* C11: classification variant: for given documents, topN and per-document
\* replies, the list compressDocuments returns (which documents, their order,
\* their scores) is fixed by the replies taken by input position and by topN,
\* whatever the order in which the calls completed.
C11_ResultIndependentOfArrival ==
  (variant = "chat" /\ Compressing /\ NumDocs > 0 /\ outcome = "returned")
    => /\ Len(returned) = KeptCount(NumDocs, topN)
       /\ returned = SubSeq(YesFirst(calls), 1, Len(returned))
       /\ \A k \in 1..Len(returned) :
            metadata[returned[k] + 1].relevanceScore =
              <<ExpectedScore(calls[returned[k] + 1].body)>>

\* The second document's reply arrived first; both are graded "yes" and are
\* returned in input order.
C11_Witness ==
  /\ variant = "chat" /\ Compressing /\ outcome = "returned"
  /\ arrivals = <<2, 1>>
  /\ Len(calls) = 2 /\ SaysYes(calls[1].body) /\ SaysYes(calls[2].body)
  /\ returned = <<0, 1>>

\* C12: when an invocation of compressDocuments fails, no input document has
\* been modified; documents change only on invocations that return normally,
\* in all three variants.
C12_FailureLeavesDocuments ==
  (Compressing /\ outcome # "returned") => metadata = InitialMetadata(NumDocs)

====
